---- MODULE Spec2Model ----
(***************************************************************************)
(* Model of python-service/pattern_service.py: the Flask service that      *)
(* scans OHLC candles with every TA-Lib candlestick detector of            *)
(* PATTERN_FUNCTIONS and computes RSI / MACD / EMA series.                 *)
(*                                                                         *)
(* TA-Lib is an external library.  Its detectors are modelled as a pure    *)
(* function of (function name, price arrays); the price arrays of a        *)
(* request are abstracted to what the detectors return on them.           *)
(***************************************************************************)
EXTENDS Integers, Sequences, FiniteSets, TLC

VARIABLES
    PATTERN_FUNCTIONS,   \* the module-level catalog dict, in insertion order
    pc,                  \* per worker thread: "idle", "loop" or "done"
    request,             \* per worker thread: the request being handled
    local,               \* per worker thread: loop position and detected_patterns
    response,            \* per worker thread: the response produced
    logged               \* per worker thread: logger.error lines of the request

vars == <<PATTERN_FUNCTIONS, pc, request, local, response, logged>>

(***************************************************************************)
(* Bounds of the model.                                                    *)
(***************************************************************************)
\* longest klines list a request carries
MaxKlines == 4
\* number of consecutive catalog detectors that may react to one input
Span == 2
\* longest closing-price list an indicator request carries
MaxClose == 2

Threads == {"t1", "t2"}

(***************************************************************************)
(* PATTERN_FUNCTIONS as written in the source (display names are kept as   *)
(* their JSON \u escapes).                                                 *)
(***************************************************************************)
PatternCatalog == <<
    [code |-> "CDL2CROWS", name |-> "\\u4e24\\u53ea\\u4e4c\\u9e26", type |-> "bearish"],
    [code |-> "CDL3BLACKCROWS", name |-> "\\u4e09\\u53ea\\u4e4c\\u9e26", type |-> "bearish"],
    [code |-> "CDL3INSIDE", name |-> "\\u4e09\\u5185\\u90e8", type |-> "bullish"],
    [code |-> "CDL3LINESTRIKE", name |-> "\\u4e09\\u7ebf\\u6253\\u51fb", type |-> "bullish"],
    [code |-> "CDL3OUTSIDE", name |-> "\\u4e09\\u5916\\u90e8", type |-> "bullish"],
    [code |-> "CDL3STARSINSOUTH", name |-> "\\u5357\\u65b9\\u4e09\\u661f", type |-> "bullish"],
    [code |-> "CDL3WHITESOLDIERS", name |-> "\\u4e09\\u767d\\u5175", type |-> "bullish"],
    [code |-> "CDLABANDONEDBABY", name |-> "\\u5f03\\u5a74", type |-> "reversal"],
    [code |-> "CDLADVANCEBLOCK", name |-> "\\u524d\\u8fdb\\u53d7\\u963b", type |-> "bearish"],
    [code |-> "CDLBELTHOLD", name |-> "\\u6349\\u8170\\u5e26", type |-> "reversal"],
    [code |-> "CDLBREAKAWAY", name |-> "\\u8131\\u79bb", type |-> "reversal"],
    [code |-> "CDLCLOSINGMARUBOZU", name |-> "\\u6536\\u76d8\\u5149\\u5934\\u5149\\u811a", type |-> "continuation"],
    [code |-> "CDLCONCEALBABYSWALL", name |-> "\\u85cf\\u5a74\\u541e\\u6ca1", type |-> "bullish"],
    [code |-> "CDLCOUNTERATTACK", name |-> "\\u53cd\\u51fb\\u7ebf", type |-> "reversal"],
    [code |-> "CDLDARKCLOUDCOVER", name |-> "\\u4e4c\\u4e91\\u76d6\\u9876", type |-> "bearish"],
    [code |-> "CDLDOJI", name |-> "\\u5341\\u5b57\\u661f", type |-> "neutral"],
    [code |-> "CDLDOJISTAR", name |-> "\\u5341\\u5b57\\u661f\\u7ebf", type |-> "reversal"],
    [code |-> "CDLDRAGONFLYDOJI", name |-> "\\u873b\\u8713\\u5341\\u5b57", type |-> "bullish"],
    [code |-> "CDLENGULFING", name |-> "\\u541e\\u6ca1\\u5f62\\u6001", type |-> "reversal"],
    [code |-> "CDLEVENINGDOJISTAR", name |-> "\\u9ec4\\u660f\\u5341\\u5b57\\u661f", type |-> "bearish"],
    [code |-> "CDLEVENINGSTAR", name |-> "\\u9ec4\\u660f\\u4e4b\\u661f", type |-> "bearish"],
    [code |-> "CDLGAPSIDESIDEWHITE", name |-> "\\u5411\\u4e0a\\u8df3\\u7a7a\\u5e76\\u5217\\u9633\\u7ebf", type |-> "bullish"],
    [code |-> "CDLGRAVESTONEDOJI", name |-> "\\u5893\\u7891\\u5341\\u5b57", type |-> "bearish"],
    [code |-> "CDLHAMMER", name |-> "\\u9524\\u5b50\\u7ebf", type |-> "bullish"],
    [code |-> "CDLHANGINGMAN", name |-> "\\u4e0a\\u540a\\u7ebf", type |-> "bearish"],
    [code |-> "CDLHARAMI", name |-> "\\u5b55\\u7ebf", type |-> "reversal"],
    [code |-> "CDLHARAMICROSS", name |-> "\\u5341\\u5b57\\u5b55\\u7ebf", type |-> "reversal"],
    [code |-> "CDLHIGHWAVE", name |-> "\\u9ad8\\u6d6a\\u7ebf", type |-> "neutral"],
    [code |-> "CDLHIKKAKE", name |-> "\\u9677\\u9631", type |-> "reversal"],
    [code |-> "CDLHIKKAKEMOD", name |-> "\\u4fee\\u6b63\\u9677\\u9631", type |-> "reversal"],
    [code |-> "CDLHOMINGPIGEON", name |-> "\\u5bb6\\u9e3d", type |-> "bullish"],
    [code |-> "CDLIDENTICAL3CROWS", name |-> "\\u76f8\\u540c\\u4e09\\u4e4c\\u9e26", type |-> "bearish"],
    [code |-> "CDLINNECK", name |-> "\\u9888\\u5185\\u7ebf", type |-> "bearish"],
    [code |-> "CDLINVERTEDHAMMER", name |-> "\\u5012\\u9524\\u5934", type |-> "bullish"],
    [code |-> "CDLKICKING", name |-> "\\u8e22\\u817f", type |-> "reversal"],
    [code |-> "CDLKICKINGBYLENGTH", name |-> "\\u957f\\u8e22\\u817f", type |-> "reversal"],
    [code |-> "CDLLADDERBOTTOM", name |-> "\\u68af\\u5e95", type |-> "bullish"],
    [code |-> "CDLLONGLEGGEDDOJI", name |-> "\\u957f\\u811a\\u5341\\u5b57", type |-> "neutral"],
    [code |-> "CDLLONGLINE", name |-> "\\u957f\\u7ebf", type |-> "continuation"],
    [code |-> "CDLMARUBOZU", name |-> "\\u5149\\u5934\\u5149\\u811a", type |-> "continuation"],
    [code |-> "CDLMATCHINGLOW", name |-> "\\u76f8\\u540c\\u4f4e\\u4ef7", type |-> "bullish"],
    [code |-> "CDLMATHOLD", name |-> "\\u94fa\\u57ab", type |-> "bullish"],
    [code |-> "CDLMORNINGDOJISTAR", name |-> "\\u65e9\\u6668\\u5341\\u5b57\\u661f", type |-> "bullish"],
    [code |-> "CDLMORNINGSTAR", name |-> "\\u65e9\\u6668\\u4e4b\\u661f", type |-> "bullish"],
    [code |-> "CDLONNECK", name |-> "\\u9888\\u4e0a\\u7ebf", type |-> "bearish"],
    [code |-> "CDLPIERCING", name |-> "\\u523a\\u900f\\u5f62\\u6001", type |-> "bullish"],
    [code |-> "CDLRICKSHAWMAN", name |-> "\\u9ec4\\u5305\\u8f66\\u592b", type |-> "neutral"],
    [code |-> "CDLRISEFALL3METHODS", name |-> "\\u4e0a\\u5347/\\u4e0b\\u964d\\u4e09\\u6cd5", type |-> "continuation"],
    [code |-> "CDLSEPARATINGLINES", name |-> "\\u5206\\u79bb\\u7ebf", type |-> "continuation"],
    [code |-> "CDLSHOOTINGSTAR", name |-> "\\u6d41\\u661f\\u7ebf", type |-> "bearish"],
    [code |-> "CDLSHORTLINE", name |-> "\\u77ed\\u7ebf", type |-> "neutral"],
    [code |-> "CDLSPINNINGTOP", name |-> "\\u7eba\\u9524\\u7ebf", type |-> "neutral"],
    [code |-> "CDLSTALLEDPATTERN", name |-> "\\u505c\\u987f\\u5f62\\u6001", type |-> "bearish"],
    [code |-> "CDLSTICKSANDWICH", name |-> "\\u6761\\u5f62\\u4e09\\u660e\\u6cbb", type |-> "bullish"],
    [code |-> "CDLTAKURI", name |-> "\\u63a2\\u6c34\\u7aff", type |-> "bullish"],
    [code |-> "CDLTASUKIGAP", name |-> "\\u8df3\\u7a7a\\u5e76\\u5217", type |-> "continuation"],
    [code |-> "CDLTHRUSTING", name |-> "\\u63d2\\u5165", type |-> "bearish"],
    [code |-> "CDLTRISTAR", name |-> "\\u4e09\\u661f", type |-> "reversal"],
    [code |-> "CDLUNIQUE3RIVER", name |-> "\\u72ec\\u7279\\u4e09\\u6cb3", type |-> "bullish"],
    [code |-> "CDLUPSIDEGAP2CROWS", name |-> "\\u5411\\u4e0a\\u8df3\\u7a7a\\u7684\\u4e24\\u53ea\\u4e4c\\u9e26", type |-> "bearish"],
    [code |-> "CDLXSIDEGAP3METHODS", name |-> "\\u4e0a\\u5347/\\u4e0b\\u964d\\u8df3\\u7a7a\\u4e09\\u6cd5", type |-> "continuation"]
>>

NumCodes == Len(PatternCatalog)

(***************************************************************************)
(* TA-Lib candlestick functions.  talib.CDLxxx(open, high, low, close)     *)
(* returns an integer array as long as its inputs, or raises.  A request's *)
(* price arrays are abstracted to [n, w, outs]: n candles, on which the    *)
(* Span detectors starting at catalog position w (wrapping around) react   *)
(* as outs says, and every other detector returns all zeros.               *)
(***************************************************************************)
DetectorValues == {-100, 0, 100, 200}

Fire(v) == [raises |-> FALSE, last |-> v, prev |-> 0]

Raise == [raises |-> TRUE, last |-> 0, prev |-> 0]

Quiet == Fire(0)

\* fired one candle earlier, nothing at the last candle
Earlier == [raises |-> FALSE, last |-> 0, prev |-> 100]

Reactions == {Raise, Earlier} \cup {Fire(v) : v \in DetectorValues}

TalibFunctions == {PatternCatalog[i].code : i \in 1..NumCodes}

CodeIndex == [c \in TalibFunctions |-> CHOOSE i \in 1..NumCodes : PatternCatalog[i].code = c]

Reaction(func_name, prices) ==
    LET off == (CodeIndex[func_name] - prices.w) % NumCodes
    IN  IF off < Span THEN prices.outs[off + 1] ELSE Quiet

\* the array a detector returns: zeros, then the reaction's last two values
ResultArray(reaction, n) ==
    [i \in 1..n |-> IF i = n THEN reaction.last
                    ELSE IF i = n - 1 THEN reaction.prev ELSE 0]

talib_CDL(func_name, prices) ==
    LET reaction == Reaction(func_name, prices)
    IN  [raises |-> reaction.raises,
         result |-> ResultArray(reaction, prices.n)]

Abs(x) == IF x < 0 THEN -x ELSE x

(***************************************************************************)
(* detect_all_patterns: one pass of the for loop body (try / except        *)
(* included), then the loop.  exc is the exception that leaves the body.   *)
(***************************************************************************)
Skip(detected_patterns, exc, log) ==
    [detected_patterns |-> detected_patterns, exc |-> exc, log |-> log]

Collect_AnyIndex(detected_patterns, func_name, pattern_info, result) ==
    IF \E k \in 1..Len(result) : result[k] # 0
    THEN Skip(Append(detected_patterns,
                     [name |-> pattern_info.name,
                      type |-> pattern_info.type,
                      signal |-> IF result[Len(result)] > 0 THEN "bullish" ELSE "bearish",
                      confidence |-> Abs(result[Len(result)]),
                      code |-> func_name]),
              "none", <<>>)
    ELSE Skip(detected_patterns, "none", <<>>)

Collect_Prepend(detected_patterns, func_name, pattern_info, result) ==
    IF Len(result) > 0 /\ result[Len(result)] # 0
    THEN Skip(<<[name |-> pattern_info.name,
                 type |-> pattern_info.type,
                 signal |-> IF result[Len(result)] > 0 THEN "bullish" ELSE "bearish",
                 confidence |-> Abs(result[Len(result)]),
                 code |-> func_name]>> \o detected_patterns,
              "none", <<>>)
    ELSE Skip(detected_patterns, "none", <<>>)

\* lines 98-108: look at the last value of the returned array
Collect(detected_patterns, func_name, pattern_info, result) ==
    IF Len(result) > 0 /\ result[Len(result)] # 0
    THEN Skip(Append(detected_patterns,
                     [name |-> pattern_info.name,
                      type |-> pattern_info.type,
                      signal |-> IF result[Len(result)] > 0 THEN "bullish" ELSE "bearish",
                      confidence |-> Abs(result[Len(result)]),
                      code |-> func_name]),
              "none", <<>>)
    ELSE Skip(detected_patterns, "none", <<>>)

\* except Exception: logger.error(...), and the loop goes on
Caught_Propagates(detected_patterns, func_name, e) ==
    Skip(detected_patterns, e, <<>>)

Caught(detected_patterns, func_name, e) ==
    Skip(detected_patterns, "none", <<"Error detecting " \o func_name>>)

Called(detected_patterns, func_name, pattern_info, call) ==
    IF call.raises
    THEN Caught(detected_patterns, func_name, "Exception")
    ELSE Collect(detected_patterns, func_name, pattern_info, call.result)

LoopBody(detected_patterns, func_name, pattern_info, prices) ==
    IF func_name \notin TalibFunctions
    THEN \* getattr(talib, func_name) raises inside the try
         Caught(detected_patterns, func_name, "AttributeError")
    ELSE Called(detected_patterns, func_name, pattern_info, talib_CDL(func_name, prices))

Advance(acc, body) ==
    [i |-> acc.i + 1,
     detected_patterns |-> body.detected_patterns,
     exc |-> body.exc,
     log |-> acc.log \o body.log]

RECURSIVE ForLoop(_, _, _)
ForLoop(catalog, prices, acc) ==
    IF acc.i > Len(catalog) \/ acc.exc # "none"
    THEN acc
    ELSE ForLoop(catalog, prices,
                 Advance(acc, LoopBody(acc.detected_patterns, catalog[acc.i].code,
                                       catalog[acc.i], prices)))

\* i is the loop position reached: 0 when the loop was never entered
NoLoop == [i |-> 0, detected_patterns |-> <<>>]

detect_all_patterns(catalog, prices) ==
    ForLoop(catalog, prices,
            [i |-> 1, detected_patterns |-> <<>>, exc |-> "none", log |-> <<>>])

(***************************************************************************)
(* POST /patterns.  data is the JSON body: klines is absent, null or a     *)
(* list of klines, each "ok" (four numeric fields) or "bad" (a field is    *)
(* missing or not a number, so float(k[...]) raises); content abstracts    *)
(* the prices.                                                             *)
(***************************************************************************)
get_klines(data) ==
    IF data.klines.present = "missing"
    THEN [present |-> "list", items |-> <<>>]
    ELSE data.klines

MinKlines == 3

TooFewKlines_OffByOne(klines) ==
    \/ klines.present = "null"
    \/ Len(klines.items) = 0
    \/ Len(klines.items) <= MinKlines

\* not klines or len(klines) < 3
TooFewKlines(klines) ==
    \/ klines.present = "null"
    \/ Len(klines.items) = 0
    \/ Len(klines.items) < MinKlines

\* the four np.array([float(k[...]) for k in klines]) conversions
ToArrays(klines, content) ==
    IF \E i \in 1..Len(klines.items) : klines.items[i] = "bad"
    THEN [exc |-> "KeyError", prices |-> [n |-> 0, w |-> 1, outs |-> <<>>]]
    ELSE [exc |-> "none",
          prices |-> [n |-> Len(klines.items), w |-> content.w, outs |-> content.outs]]

PatternsOk(patterns) ==
    [status |-> 200, success |-> TRUE, patterns |-> patterns, total |-> Len(patterns)]

ErrorResponse(status, error) == [status |-> status, error |-> error]

\* lines 148-156: the response once detect_all_patterns is over
Scanned(scan) ==
    IF scan.exc # "none"
    THEN [response |-> ErrorResponse(500, scan.exc),
          loop |-> [i |-> scan.i, detected_patterns |-> scan.detected_patterns],
          log |-> scan.log \o <<"Pattern detection error">>]
    ELSE [response |-> PatternsOk(scan.detected_patterns),
          loop |-> [i |-> scan.i, detected_patterns |-> scan.detected_patterns],
          log |-> scan.log]

Converted(catalog, arrays) ==
    IF arrays.exc # "none"
    THEN [response |-> ErrorResponse(500, arrays.exc),
          loop |-> NoLoop,
          log |-> <<"Pattern detection error">>]
    ELSE Scanned(detect_all_patterns(catalog, arrays.prices))

detect_patterns_body(catalog, data) ==
    IF TooFewKlines(get_klines(data))
    THEN [response |-> ErrorResponse(400, "Need at least 3 klines"),
          loop |-> NoLoop, log |-> <<>>]
    ELSE Converted(catalog, ToArrays(get_klines(data), data.content))

(***************************************************************************)
(* GET /patterns/list and GET /health.                                     *)
(***************************************************************************)
list_patterns_body_Short(catalog) ==
    [status |-> 200,
     total |-> Len(catalog),
     patterns |-> [i \in 1..(Len(catalog) - 1) |->
                      [code |-> catalog[i].code,
                       name |-> catalog[i].name,
                       type |-> catalog[i].type]]]

list_patterns_body(catalog) ==
    [status |-> 200,
     total |-> Len(catalog),
     patterns |-> [i \in 1..Len(catalog) |->
                      [code |-> catalog[i].code,
                       name |-> catalog[i].name,
                       type |-> catalog[i].type]]]

health_body ==
    [status |-> 200, health |-> "healthy", service |-> "TA-Lib Pattern Recognition"]

(***************************************************************************)
(* POST /indicators.  close is absent or a list of values: "1", "2"        *)
(* (finite), "nan" (float() accepts it) or "abc" (float() raises).         *)
(* talib_raises abstracts the close array: the TA-Lib indicator functions  *)
(* that raise on it.  A computed series is kept as the term naming the     *)
(* function, its period and its input.                                     *)
(***************************************************************************)
get_close(data) == IF data.close.present = "missing" THEN <<>> ELSE data.close.items

get_indicators(data) ==
    IF data.indicators.present = "missing" THEN {} ELSE data.indicators.names

talib_series(fn, timeperiod, out, close) ==
    [fn |-> fn, timeperiod |-> timeperiod, out |-> out, real |-> close]

RsiPart(indicators, close) ==
    IF "RSI" \in indicators
    THEN "rsi" :> [series |-> talib_series("RSI", 14, "real", close)]
    ELSE <<>>

MacdPart(indicators, close) ==
    IF "MACD" \in indicators
    THEN "macd" :> [macd |-> talib_series("MACD", 0, "macd", close),
                    signal |-> talib_series("MACD", 0, "macdsignal", close),
                    histogram |-> talib_series("MACD", 0, "macdhist", close)]
    ELSE <<>>

EmaPart_OnlyEma7(indicators, close) ==
    IF "EMA" \in indicators
    THEN "ema7" :> [series |-> talib_series("EMA", 7, "real", close)]
    ELSE <<>>

EmaPart(indicators, close) ==
    IF "EMA" \in indicators
    THEN ("ema7" :> [series |-> talib_series("EMA", 7, "real", close)]) @@
         ("ema25" :> [series |-> talib_series("EMA", 25, "real", close)])
    ELSE <<>>

calculate_indicators_body(data) ==
    LET close == get_close(data)
        indicators == get_indicators(data)
    IN  IF \E i \in 1..Len(close) : close[i] = "abc"
        THEN ErrorResponse(500, "ValueError")
        ELSE IF \E fn \in {"RSI", "MACD", "EMA"} :
                    fn \in indicators /\ fn \in data.talib_raises
        THEN ErrorResponse(500, "Exception")
        ELSE [status |-> 200, success |-> TRUE,
              indicators |-> RsiPart(indicators, close) @@ MacdPart(indicators, close)
                                 @@ EmaPart(indicators, close)]

(***************************************************************************)
(* The requests the model sends.                                           *)
(***************************************************************************)
Contents == {[w |-> w, outs |-> o] : w \in 1..NumCodes, o \in [1..Span -> Reactions]}

QuietContent == [w |-> 1, outs |-> [k \in 1..Span |-> Quiet]]

FiringContent == [w |-> 1, outs |-> [k \in 1..Span |-> Fire(100)]]

AllOk(n) == [i \in 1..n |-> "ok"]

KlineLists == UNION {[1..n -> {"ok", "bad"}] : n \in 0..MaxKlines}

ScanRequest(present, items, content) ==
    [route |-> "patterns",
     klines |-> [present |-> present, items |-> items],
     content |-> content]

ScanRequests ==
    {ScanRequest(p, <<>>, c) : p \in {"missing", "null"}, c \in {QuietContent, FiringContent}}
    \cup {ScanRequest("list", items, c) :
            items \in {l \in KlineLists : Len(l) < MinKlines \/ l # AllOk(Len(l))},
            c \in {QuietContent, FiringContent}}
    \cup {ScanRequest("list", AllOk(n), c) : n \in MinKlines..MaxKlines, c \in Contents}

CloseValues == {"1", "2", "nan", "abc"}

IndicatorNames == {"RSI", "MACD", "EMA", "SMA"}

CloseLists == UNION {[1..n -> CloseValues] : n \in 0..MaxClose}

IndicatorRequest(close, indicators, talib_raises) ==
    [route |-> "indicators", close |-> close, indicators |-> indicators,
     talib_raises |-> talib_raises]

IndicatorRequests ==
    {IndicatorRequest(c, i, r) :
        c \in {[present |-> "missing", items |-> <<>>]}
              \cup {[present |-> "list", items |-> l] : l \in CloseLists},
        i \in {[present |-> "missing", names |-> {}]}
              \cup {[present |-> "list", names |-> n] : n \in SUBSET IndicatorNames},
        r \in SUBSET {"RSI", "MACD", "EMA"}}

\* the few requests used where worker threads interleave
ConcContents ==
    {[w |-> w, outs |-> [k \in 1..Span |-> IF k = 1 THEN p[1] ELSE p[2]]] :
        w \in {1, NumCodes},
        p \in {<<Fire(100), Raise>>, <<Fire(-100), Fire(200)>>}}

ConcScanRequests ==
    {ScanRequest("missing", <<>>, QuietContent)}
    \cup {ScanRequest("list", AllOk(MinKlines), c) : c \in ConcContents}

ConcIndicatorRequests ==
    {IndicatorRequest([present |-> "list", items |-> <<"1", "2">>],
                      [present |-> "list", names |-> n], {}) :
        n \in {{"RSI", "SMA"}, {"MACD", "EMA"}}}

(***************************************************************************)
(* State machine.  Each worker thread handles one request at a time.       *)
(***************************************************************************)
NoRequest == [route |-> "none"]

NoResponse == [status |-> 0]

Init ==
    /\ PATTERN_FUNCTIONS = PatternCatalog
    /\ pc = [t \in Threads |-> "idle"]
    /\ request = [t \in Threads |-> NoRequest]
    /\ local = [t \in Threads |-> NoLoop]
    /\ response = [t \in Threads |-> NoResponse]
    /\ logged = [t \in Threads |-> <<>>]

\* detected_patterns and the loop position are locals of the call
SetLocal_Shared(loc, t, i, detected_patterns) ==
    [u \in Threads |-> [i |-> IF u = t THEN i ELSE loc[u].i,
                        detected_patterns |-> detected_patterns]]

SetLocal(loc, t, i, detected_patterns) ==
    [loc EXCEPT ![t] = [i |-> i, detected_patterns |-> detected_patterns]]

\* POST /patterns handled in one step
detect_patterns(t) ==
    /\ pc[t] = "idle"
    /\ \E data \in ScanRequests :
          \E out \in {detect_patterns_body(PATTERN_FUNCTIONS, data)} :
              /\ request' = [request EXCEPT ![t] = data]
              /\ response' = [response EXCEPT ![t] = out.response]
              /\ local' = SetLocal(local, t, out.loop.i, out.loop.detected_patterns)
              /\ logged' = [logged EXCEPT ![t] = out.log]
    /\ pc' = [pc EXCEPT ![t] = "done"]
    /\ UNCHANGED PATTERN_FUNCTIONS

\* POST /patterns, one step per statement group: up to the first loop pass
BeginScan(t) ==
    /\ pc[t] = "idle"
    /\ \E data \in ConcScanRequests :
          LET klines == get_klines(data)
              arrays == ToArrays(klines, data.content)
          IN  /\ request' = [request EXCEPT ![t] = data]
              /\ IF TooFewKlines(klines)
                 THEN /\ response' = [response EXCEPT ![t] =
                                         ErrorResponse(400, "Need at least 3 klines")]
                      /\ pc' = [pc EXCEPT ![t] = "done"]
                      /\ UNCHANGED <<local, logged>>
                 ELSE IF arrays.exc # "none"
                 THEN /\ response' = [response EXCEPT ![t] =
                                         ErrorResponse(500, arrays.exc)]
                      /\ logged' = [logged EXCEPT ![t] = <<"Pattern detection error">>]
                      /\ pc' = [pc EXCEPT ![t] = "done"]
                      /\ UNCHANGED local
                 ELSE /\ local' = SetLocal(local, t, 1, <<>>)
                      /\ pc' = [pc EXCEPT ![t] = "loop"]
                      /\ UNCHANGED <<response, logged>>
    /\ UNCHANGED PATTERN_FUNCTIONS

\* one pass of the for loop of detect_all_patterns
LoopIter(t) ==
    /\ pc[t] = "loop"
    /\ local[t].i <= Len(PATTERN_FUNCTIONS)
    /\ LET info == PATTERN_FUNCTIONS[local[t].i]
           arrays == ToArrays(get_klines(request[t]), request[t].content)
           body == LoopBody(local[t].detected_patterns, info.code, info, arrays.prices)
       IN  IF body.exc # "none"
           THEN /\ response' = [response EXCEPT ![t] = ErrorResponse(500, body.exc)]
                /\ logged' = [logged EXCEPT ![t] = @ \o <<"Pattern detection error">>]
                /\ pc' = [pc EXCEPT ![t] = "done"]
                /\ UNCHANGED local
           ELSE /\ local' = SetLocal(local, t, local[t].i + 1, body.detected_patterns)
                /\ logged' = [logged EXCEPT ![t] = @ \o body.log]
                /\ UNCHANGED <<response, pc>>
    /\ UNCHANGED <<PATTERN_FUNCTIONS, request>>

\* the loop is over: return detected_patterns, jsonify
EndScan(t) ==
    /\ pc[t] = "loop"
    /\ local[t].i > Len(PATTERN_FUNCTIONS)
    /\ response' = [response EXCEPT ![t] = PatternsOk(local[t].detected_patterns)]
    /\ pc' = [pc EXCEPT ![t] = "done"]
    /\ UNCHANGED <<PATTERN_FUNCTIONS, request, local, logged>>

list_patterns(t) ==
    /\ pc[t] = "idle"
    /\ request' = [request EXCEPT ![t] = [route |-> "patterns/list"]]
    /\ response' = [response EXCEPT ![t] = list_patterns_body(PATTERN_FUNCTIONS)]
    /\ pc' = [pc EXCEPT ![t] = "done"]
    /\ UNCHANGED <<PATTERN_FUNCTIONS, local, logged>>

health(t) ==
    /\ pc[t] = "idle"
    /\ request' = [request EXCEPT ![t] = [route |-> "health"]]
    /\ response' = [response EXCEPT ![t] = health_body]
    /\ pc' = [pc EXCEPT ![t] = "done"]
    /\ UNCHANGED <<PATTERN_FUNCTIONS, local, logged>>

Indicators(t, requests) ==
    /\ pc[t] = "idle"
    /\ \E data \in requests :
          /\ request' = [request EXCEPT ![t] = data]
          /\ response' = [response EXCEPT ![t] = calculate_indicators_body(data)]
    /\ pc' = [pc EXCEPT ![t] = "done"]
    /\ UNCHANGED <<PATTERN_FUNCTIONS, local, logged>>

calculate_indicators(t) == Indicators(t, IndicatorRequests)

calculate_indicators_conc(t) == Indicators(t, ConcIndicatorRequests)

\* the response is sent; everything of the request is discarded
Return(t) ==
    /\ pc[t] = "done"
    /\ pc' = [pc EXCEPT ![t] = "idle"]
    /\ request' = [request EXCEPT ![t] = NoRequest]
    /\ response' = [response EXCEPT ![t] = NoResponse]
    /\ local' = SetLocal(local, t, 0, <<>>)
    /\ logged' = [logged EXCEPT ![t] = <<>>]
    /\ UNCHANGED PATTERN_FUNCTIONS

\* one worker, every request of the bounded input sets
Next ==
    \/ detect_patterns("t1")
    \/ list_patterns("t1")
    \/ health("t1")
    \/ calculate_indicators("t1")
    \/ Return("t1")

Spec == Init /\ [][Next]_vars

\* concurrent workers, the scan loop interleaved pass by pass
NextConc ==
    \E t \in Threads :
        \/ BeginScan(t)
        \/ LoopIter(t)
        \/ EndScan(t)
        \/ list_patterns(t)
        \/ health(t)
        \/ calculate_indicators_conc(t)
        \/ Return(t)

SpecConc == Init /\ [][NextConc]_vars

(***************************************************************************)
(* Properties.                                                             *)
(***************************************************************************)
DoneScan(t) == pc[t] = "done" /\ request[t].route = "patterns"

DoneList(t) == pc[t] = "done" /\ request[t].route = "patterns/list"

DoneIndicators(t) == pc[t] = "done" /\ request[t].route = "indicators"

\* a scan request of at least three well-formed klines
ValidScan(t) ==
    /\ DoneScan(t)
    /\ request[t].klines.present = "list"
    /\ Len(request[t].klines.items) >= MinKlines
    /\ \A i \in 1..Len(request[t].klines.items) : request[t].klines.items[i] = "ok"

Prices(t) == ToArrays(get_klines(request[t]), request[t].content).prices

CodesOf(patterns) == {patterns[i].code : i \in 1..Len(patterns)}

CatalogCodes == {PATTERN_FUNCTIONS[i].code : i \in 1..Len(PATTERN_FUNCTIONS)}

Position(code) == CHOOSE i \in 1..Len(PATTERN_FUNCTIONS) : PATTERN_FUNCTIONS[i].code = code

Faulting(prices) == {c \in TalibFunctions : Reaction(c, prices).raises}

\* the same prices, had the faulting detectors returned v at the last candle
Unfaulted(prices, v) ==
    [prices EXCEPT !.outs = [k \in 1..Span |-> IF @[k].raises THEN Fire(v) ELSE @[k]]]

NotIn(F, patterns) == SelectSeq(patterns, LAMBDA r : r.code \notin F)

\* C1: when detectors raise, the scan still succeeds, the faulting patterns are
\* not reported, and every other pattern's result is what a scan reports in
\* which those detectors do not raise (whatever they return instead).
C1_FaultIsolation ==
    \A t \in Threads :
        ValidScan(t) =>
            /\ response[t].status = 200
            /\ \A r \in Faulting(Prices(t)) : r \notin CodesOf(response[t].patterns)
            /\ Faulting(Prices(t)) # {} =>
                  \A v \in DetectorValues :
                      NotIn(Faulting(Prices(t)), response[t].patterns) =
                      NotIn(Faulting(Prices(t)),
                            detect_all_patterns(PatternCatalog,
                                                Unfaulted(Prices(t), v)).detected_patterns)

C1_Witness ==
    \E t \in Threads :
        /\ ValidScan(t)
        /\ Cardinality(Faulting(Prices(t))) >= 1
        /\ response[t].status = 200
        /\ Len(response[t].patterns) >= 1

\* C2: fewer than 3 klines (absent, null and empty included) gives the
\* "Need at least 3 klines" error, no detector runs and no list is returned;
\* 3 or more klines never give that error.
C2_InsufficientData ==
    \A t \in Threads :
        DoneScan(t) =>
            IF request[t].klines.present # "list"
               \/ Len(request[t].klines.items) < 3
            THEN /\ response[t] = [status |-> 400, error |-> "Need at least 3 klines"]
                 /\ local[t].i = 0
                 /\ logged[t] = <<>>
            ELSE response[t].status # 400

C2_Witness ==
    \E t \in Threads :
        /\ DoneScan(t)
        /\ request[t].klines.present = "list"
        /\ Len(request[t].klines.items) = 2
        /\ request[t].content = FiringContent
        /\ response[t].status = 400

Emitted(t, code) == \E i \in 1..Len(response[t].patterns) : response[t].patterns[i].code = code

\* the value of detector code at the last index of the supplied sequence
LastValue(t, code) == talib_CDL(code, Prices(t)).result[Len(request[t].klines.items)]

\* C3: a pattern is emitted iff its detector's value at the last index is
\* non-zero; the signal is bullish iff that value is positive, bearish iff it
\* is negative; no result has confidence 0.
C3_EmitIffLastNonZero ==
    \A t \in Threads :
        ValidScan(t) =>
            /\ response[t].status = 200
            /\ \A code \in CatalogCodes :
                  Emitted(t, code) <=>
                      (~talib_CDL(code, Prices(t)).raises /\ LastValue(t, code) # 0)
            /\ \A i \in 1..Len(response[t].patterns) :
                  LET r == response[t].patterns[i]
                  IN  /\ r.signal = "bullish" <=> LastValue(t, r.code) > 0
                      /\ r.signal = "bearish" <=> LastValue(t, r.code) < 0
                      /\ r.confidence # 0

C3_Witness ==
    \E t \in Threads :
        /\ ValidScan(t)
        /\ \E c \in CatalogCodes : Reaction(c, Prices(t)) = Earlier /\ ~Emitted(t, c)
        /\ \E i \in 1..Len(response[t].patterns) : response[t].patterns[i].signal = "bearish"

\* C4: the returned list is in catalog declaration order with at most one
\* result per code, and total is the length of the list.
C4_CatalogOrder ==
    \A t \in Threads :
        (DoneScan(t) /\ response[t].status = 200) =>
            /\ \A i, j \in 1..Len(response[t].patterns) :
                  i < j => Position(response[t].patterns[i].code)
                               < Position(response[t].patterns[j].code)
            /\ response[t].total = Len(response[t].patterns)

C4_Witness ==
    \E t \in Threads :
        /\ DoneScan(t)
        /\ response[t].status = 200
        /\ Len(response[t].patterns) >= 2
        /\ response[t].patterns[1].code = PatternCatalog[1].code
        /\ response[t].patterns[2].code = PatternCatalog[NumCodes].code

\* C5: every emitted result has confidence 100 and a bullish or bearish signal.
C5_ConfidenceIs100 ==
    \A t \in Threads :
        (DoneScan(t) /\ response[t].status = 200) =>
            \A i \in 1..Len(response[t].patterns) :
                /\ response[t].patterns[i].confidence = 100
                /\ response[t].patterns[i].signal \in {"bullish", "bearish"}

\* a scan request on which the detector at catalog position w alone fires
Solo(w) ==
    ScanRequest("list", AllOk(MinKlines),
                [w |-> w, outs |-> [k \in 1..Span |-> IF k = 1 THEN Fire(100) ELSE Quiet]])

\* the codes some scan of the catalog reports
CodesThatCanAppear ==
    UNION {CodesOf(detect_patterns_body(PatternCatalog, Solo(w)).response.patterns) :
             w \in 1..NumCodes}

ListedCodes == CodesOf(list_patterns_body(PATTERN_FUNCTIONS).patterns)

EmptyOrNonFinite(close) ==
    \/ close.present = "missing"
    \/ Len(close.items) = 0
    \/ \E i \in 1..Len(close.items) : close.items[i] = "nan"

\* C7: an indicator request whose close series is empty or holds a non-finite
\* value never gets a success response, whatever indicators it names.
C7_ValidationError ==
    \A t \in Threads :
        (DoneIndicators(t) /\ EmptyOrNonFinite(request[t].close)) =>
            response[t].status # 200

KnownIndicators == {"RSI", "MACD", "EMA"}

WithoutUnknown(data) ==
    [data EXCEPT !.indicators =
        [present |-> "list", names |-> get_indicators(data) \cap KnownIndicators]]

SeriesOf(fn, timeperiod, t) ==
    [series |-> [fn |-> fn, timeperiod |-> timeperiod, out |-> "real",
                 real |-> get_close(request[t])]]

\* C8: unknown indicator names are ignored: the response is the one the
\* request gets without them, and a successful output holds rsi iff RSI was
\* requested, macd (macd, signal, histogram) iff MACD, ema7 and ema25 iff
\* EMA, and nothing else.
C8_UnknownIgnored ==
    \A t \in Threads :
        DoneIndicators(t) =>
            /\ response[t] = calculate_indicators_body(WithoutUnknown(request[t]))
            /\ response[t].status = 200 =>
                  LET requested == get_indicators(request[t])
                      out == response[t].indicators
                  IN  /\ DOMAIN out =
                            (IF "RSI" \in requested THEN {"rsi"} ELSE {})
                            \cup (IF "MACD" \in requested THEN {"macd"} ELSE {})
                            \cup (IF "EMA" \in requested THEN {"ema7", "ema25"} ELSE {})
                      /\ "RSI" \in requested => out["rsi"] = SeriesOf("RSI", 14, t)
                      /\ "MACD" \in requested =>
                            DOMAIN out["macd"] = {"macd", "signal", "histogram"}
                      /\ "EMA" \in requested =>
                            /\ out["ema7"] = SeriesOf("EMA", 7, t)
                            /\ out["ema25"] = SeriesOf("EMA", 25, t)

C8_Witness ==
    \E t \in Threads :
        /\ DoneIndicators(t)
        /\ get_indicators(request[t]) = {"EMA", "SMA"}
        /\ response[t].status = 200
        /\ DOMAIN response[t].indicators = {"ema7", "ema25"}

\* the number of patterns the module docstring and comments announce
DocumentedPatterns == 62

\* C9: the catalog registers 62 patterns: the catalog query reports total 62
\* with 62 distinct codes, and every scan evaluates 62 detectors.
C9_SixtyTwoPatterns ==
    \A t \in Threads :
        /\ DoneList(t) =>
              /\ response[t].total = DocumentedPatterns
              /\ Cardinality(CodesOf(response[t].patterns)) = DocumentedPatterns
        /\ (DoneScan(t) /\ response[t].status = 200) =>
              local[t].i - 1 = DocumentedPatterns

\* C10: the catalog is never changed, and under any interleaving of worker
\* threads a scan returns what the same request returns when handled alone.
C10_Stateless ==
    /\ PATTERN_FUNCTIONS = PatternCatalog
    /\ \A t \in Threads :
          DoneScan(t) =>
              response[t] = detect_patterns_body(PatternCatalog, request[t]).response

C10_Witness ==
    \E t, u \in Threads :
        /\ t # u
        /\ pc[t] = "loop"
        /\ Len(local[t].detected_patterns) >= 1
        /\ DoneScan(u)
        /\ response[u].status = 200
        /\ Len(response[u].patterns) >= 1
        /\ request[u] # request[t]

====
